---- MODULE Spec2Model ----
(***************************************************************************)
(* Order intake of crafting-sign-backend: POST /api/orders,                *)
(* POST /api/payments/confirm and PUT /api/orders/:id/status               *)
(* (routes/orderRoutes.js, routes/paymentRoutes.js) over the two mongoose  *)
(* collections orders (models/Order.js) and customers (models/Customer.js).*)
(* Every await of a handler is a scheduling point: a handler is a chain of *)
(* steps, and steps of different requests interleave freely.               *)
(***************************************************************************)
EXTENDS Integers, Sequences, FiniteSets, TLC

\* ------------------------------------------------------------------ bounds
MaxRequests == 2     \* requests that get past the checks in front of their
                     \* handler's first await, in one behaviour
MaxClock == 2        \* how far the wall clock advances

\* any number of them can be in flight together
Slots == 1..MaxRequests

\* JavaScript's undefined (a field the request body does not carry)
ABSENT == "<undefined>"
\* null (findOne / findById found nothing)
NULL == "<null>"

\* ------------------------------------------------------- schemas (models/)
OrderStatuses == {"Pending", "Processing", "Shipped", "Delivered", "Cancelled"}
OrderPaymentStatuses == {"Pending", "Complete", "Failed", "Refunded"}
CustomerPaymentStatuses == {"Pending", "Complete", "Failed"}

\* a falsy JavaScript value, as in `x || d` and `if (x)`
Falsy(v) == v \in {ABSENT, NULL, ""}
OrElse(v, d) == IF Falsy(v) THEN d ELSE v

\* mongoose `required: true` on a String path
Missing(v) == v \in {ABSENT, NULL, ""}

\* ---------------------------------------------------- identifier format
DigitChar(d) ==
  CASE d = 0 -> "0" [] d = 1 -> "1" [] d = 2 -> "2" [] d = 3 -> "3" [] d = 4 -> "4"
    [] d = 5 -> "5" [] d = 6 -> "6" [] d = 7 -> "7" [] d = 8 -> "8" [] d = 9 -> "9"

\* String(n) for a natural number n
RECURSIVE NumToString(_)
NumToString(n) ==
  IF n < 10 THEN DigitChar(n) ELSE NumToString(n \div 10) \o DigitChar(n % 10)

\* s.padStart(width, ch)
RECURSIVE PadStart(_, _, _)
PadStart(s, width, ch) ==
  IF Len(s) >= width THEN s ELSE PadStart(ch \o s, width, ch)

\* `ORD-${String(count + 1).padStart(3, '0')}`
FormatId(prefix, count) == prefix \o "-" \o PadStart(NumToString(count + 1), 3, "0")

\* ------------------------------------------------------------ request bodies
Emails == {"alice@example.com", "bob@example.com"}
Intents == {"pi_1", "pi_2"}
Item == [productId |-> "p1", name |-> "Sign", price |-> 10, quantity |-> 1]

\* the lowercase: true setter of customerSchema.email, on the addresses the
\* model submits (mongoose applies it to documents and to query conditions)
LowerCase(s) == IF s = "Bob@Example.com" THEN "bob@example.com" ELSE s

\* validator.js isEmail, on the addresses the model submits
IsEmail(s) == LowerCase(s) \in Emails

\* a checkout body that carries the documented fields and nothing else
PlainBody(e, t) ==
  [ paymentIntentId |-> ABSENT,
    name |-> "Ann", email |-> e, phone |-> "555", address |-> "1 Main St",
    city |-> "Pune", country |-> "IN", location |-> ABSENT,
    items |-> << Item >>, total |-> t,
    paymentStatus |-> ABSENT, status |-> ABSENT, notes |-> ABSENT,
    orderId |-> ABSENT, shipping |-> ABSENT ]
\* (shipping holds the method of the body's shipping object, ABSENT without one)

PlainBodies ==
  { PlainBody("alice@example.com", 10), PlainBody("alice@example.com", 15),
    PlainBody("bob@example.com", 10) }

\* bodies that fail a validation rule of the route
Seed == PlainBody("alice@example.com", 10)
InvalidBodies ==
  { [Seed EXCEPT !.name = ""], [Seed EXCEPT !.name = ABSENT],
    [Seed EXCEPT !.email = "not-an-email"],
    [Seed EXCEPT !.phone = ""], [Seed EXCEPT !.items = << >>],
    [Seed EXCEPT !.total = -1] }

\* bodies that pass the route's validation and carry more than the plain body
ExtraBodies ==
  { [Seed EXCEPT !.address = ABSENT],
    [Seed EXCEPT !.paymentStatus = "Complete"],
    [Seed EXCEPT !.paymentStatus = "Refunded"],
    [Seed EXCEPT !.status = "Shipped"],
    [Seed EXCEPT !.orderId = "ORD-002"],
    [Seed EXCEPT !.email = "Bob@Example.com"],
    [Seed EXCEPT !.name = " "],
    [Seed EXCEPT !.name = "Bea", !.phone = "777", !.location = "Goa"] }

DirectBodies == PlainBodies \cup InvalidBodies \cup ExtraBodies

ConfirmBodies ==
  { [b EXCEPT !.paymentIntentId = "pi_1"] : b \in PlainBodies }
  \cup { [Seed EXCEPT !.paymentIntentId = "pi_2"] }
  \cup { [Seed EXCEPT !.paymentIntentId = ""] }
  \cup { [b EXCEPT !.paymentIntentId = "pi_1"] : b \in InvalidBodies }
  \cup { [Seed EXCEPT !.paymentIntentId = "pi_1", !.country = ""] }
  \cup { [Seed EXCEPT !.paymentIntentId = "pi_1", !.shipping = "express"],
         [Seed EXCEPT !.paymentIntentId = "pi_1", !.status = "Shipped",
                      !.paymentStatus = "Refunded"] }

\* what stripe.paymentIntents.retrieve can answer; "error" is a rejected promise
GatewayStatuses == {"created", "requires_action", "succeeded", "failed", "canceled"}
GatewayOutcomes == GatewayStatuses \cup {"error"}

\* ------------------------------------------------------------------- state
VARIABLES
  orders,        \* the orders collection, in insertion order
  customers,     \* the customers collection, in insertion order
  pc,            \* per slot: where its handler stands ("idle": no request)
  req,           \* per slot: the request and the handler's local variables
  clock,         \* what new Date() returns
  stripeKey,     \* process.env.STRIPE_SECRET_KEY is set
  nStarted,      \* requests started so far
  resp,          \* the response the last step sent (NoReply: it sent none)
  origin,        \* history, parallel to orders: how each order came to be
  batch          \* history: the requests started since the last moment
                 \* no request was in flight (see FreshBatch)

vars == << orders, customers, pc, req, clock, stripeKey, nStarted, resp,
           origin, batch >>

stores == << orders, customers >>

\* a slot between requests
IdleReq ==
  [ kind |-> "none", body |-> NULL, id |-> 0, orderId |-> NULL, doc |-> NULL,
    gw |-> NULL ]

InFlight(r) == pc[r] # "idle"
Quiescent == \A r \in Slots : pc[r] = "idle"

\* ------------------------------------------------------------------- time
\* new Date() / Date.now(): time has passed since the last reading, or not
Now == { t \in {clock, clock + 1} : t <= MaxClock }

\* -------------------------------------------------------- the collections
\* Customer.findOne({ email }): the index of the row, 0 when there is none
RowOf(rows, e) ==
  IF \E k \in 1..Len(rows) : rows[k].email = LowerCase(e)
  THEN CHOOSE k \in 1..Len(rows) : rows[k].email = LowerCase(e)
  ELSE 0

\* Order.countDocuments() / Customer.countDocuments()
CountDocuments(coll) == Len(coll)

\* ---------------------------------------------------------------- history
\* A batch is the set of requests started since the last moment at which no
\* request was in flight: base is the customers collection at that moment,
\* n / sum count per email the creation requests that passed validation (and,
\* on the confirm path, the gateway check) and add up their totals, ok counts
\* those answered 201, plain says that all of them were plain bodies.
FreshBatch(rows) ==
  [ base |-> rows,
    n |-> [e \in Emails |-> 0], sum |-> [e \in Emails |-> 0],
    ok |-> [e \in Emails |-> 0], plain |-> TRUE ]

StartBatch == IF Quiescent THEN FreshBatch(customers) ELSE batch

Enter(bt, b) ==
  [ bt EXCEPT !.n[LowerCase(b.email)] = @ + 1,
              !.sum[LowerCase(b.email)] = @ + b.total,
              !.plain = @ /\ ([b EXCEPT !.paymentIntentId = ABSENT] \in PlainBodies) ]

Answered201(bt, b) == [ bt EXCEPT !.ok[LowerCase(b.email)] = @ + 1 ]

\* res.status(code).json({ message, ... }): status is the gateway status the
\* body of a 'Payment not completed' answer carries
Reply(route, code, message) ==
  [ route |-> route, code |-> code, message |-> message, status |-> "" ]
NoReply == Reply("", 0, "")

\* res.status(400).json({ errors: errors.array() })
Invalid(route) == Reply(route, 400, "errors")

\* the catch blocks: res.status(500).json({ message: 'Error ...' })
Caught(kind) ==
  CASE kind = "direct" -> Reply("POST /orders", 500, "Error creating order")
    [] kind = "confirm" -> Reply("POST /payments/confirm", 500, "Error confirming payment")
    [] kind = "status" -> Reply("PUT /orders/:id/status", 500, "Error updating order")
    [] kind = "intent" -> Reply("POST /payments/create-intent", 500,
                                "Error creating payment intent")

\* res.status(201).json(...)
Created(kind) ==
  IF kind = "direct" THEN Reply("POST /orders", 201, "")
  ELSE Reply("POST /payments/confirm", 201, "Order confirmed successfully")

\* the handler of slot r sends the response a and the slot is free again
Finish(r, a) ==
  /\ pc' = [pc EXCEPT ![r] = "idle"]
  /\ req' = [req EXCEPT ![r] = IdleReq]
  /\ resp' = a
  /\ UNCHANGED nStarted

\* the handler of slot r goes on to its next await
Goto(r, label, locals) ==
  /\ pc' = [pc EXCEPT ![r] = label]
  /\ req' = [req EXCEPT ![r] = locals]
  /\ resp' = NoReply
  /\ nStarted' = IF pc[r] = "idle" THEN nStarted + 1 ELSE nStarted

\* a request comes in and takes slot r: the free slot of lowest number (slots
\* are interchangeable)
Accept(r) ==
  /\ pc[r] = "idle" /\ \A r2 \in Slots : r2 < r => pc[r2] # "idle"
  /\ nStarted < MaxRequests

\* ------------------------------------------------ POST /api/orders (direct)
\* the express-validator chain of the two creation routes: the rules that fail
NoRuleErrors(b) == {}
OrderRuleErrors(b) ==
  { rule \in {"customer.name", "customer.email", "customer.phone", "items", "total"} :
      CASE rule = "customer.name" -> Falsy(b.name)
        [] rule = "customer.email" -> ~IsEmail(b.email)
        [] rule = "customer.phone" -> Falsy(b.phone)
        [] rule = "items" -> Len(b.items) < 1
        [] rule = "total" -> b.total < 0 }

\* a schema default: the value a path gets when the document does not set it
WithDefault(v, d) == IF v = ABSENT THEN d ELSE v

\* new Order({ orderId, ...req.body }): the spread comes after orderId, so every
\* key of the body that is a path of the schema lands in the document
NewOrderDirectRepriced(orderId, b) ==
  [ orderId |-> IF b.orderId = ABSENT THEN orderId ELSE b.orderId,
    customer |-> [ name |-> b.name, email |-> b.email, phone |-> b.phone,
                   address |-> b.address, city |-> b.city, country |-> b.country ],
    items |-> b.items,
    total |-> b.items[1].price * b.items[1].quantity,
    status |-> WithDefault(b.status, "Pending"),
    paymentStatus |-> WithDefault(b.paymentStatus, "Pending"),
    notes |-> WithDefault(b.notes, "") ]
NewOrderDirect(orderId, b) ==
  [ orderId |-> IF b.orderId = ABSENT THEN orderId ELSE b.orderId,
    customer |-> [ name |-> b.name, email |-> b.email, phone |-> b.phone,
                   address |-> b.address, city |-> b.city, country |-> b.country ],
    items |-> b.items,
    total |-> b.total,
    status |-> WithDefault(b.status, "Pending"),
    paymentStatus |-> WithDefault(b.paymentStatus, "Pending"),
    notes |-> WithDefault(b.notes, "") ]

\* mongoose validation of an order document (orderSchema)
OrderValidNoEnums(o) ==
  /\ ~Missing(o.orderId)
  /\ ~Missing(o.customer.name) /\ ~Missing(o.customer.email)
  /\ ~Missing(o.customer.phone) /\ ~Missing(o.customer.address)
  /\ o.total >= 0
OrderValid(o) ==
  /\ ~Missing(o.orderId)
  /\ ~Missing(o.customer.name) /\ ~Missing(o.customer.email)
  /\ ~Missing(o.customer.phone) /\ ~Missing(o.customer.address)
  /\ \A i \in 1..Len(o.items) : ~Missing(o.items[i].productId)
  /\ o.total >= 0
  /\ o.status \in OrderStatuses
  /\ o.paymentStatus \in OrderPaymentStatuses

\* the unique index on orders.orderId rejects the insert (E11000)
NeverTaken(coll, o) == FALSE
OrderIdTaken(coll, o) == \E k \in 1..Len(coll) : coll[k].orderId = o.orderId

\* router.post('/') up to its first await
StartDirect(r, b) ==
  /\ Accept(r)
  /\ IF OrderRuleErrors(b) # {}
     THEN /\ Finish(r, Invalid("POST /orders"))
          /\ batch' = StartBatch
     ELSE /\ Goto(r, "count", [IdleReq EXCEPT !.kind = "direct", !.body = b])
          /\ batch' = Enter(StartBatch, b)
  /\ UNCHANGED << orders, customers, clock, stripeKey, origin >>

\* const orderCount = await Order.countDocuments(); const orderId = ...
CountOrders(r) ==
  /\ pc[r] = "count"
  /\ Goto(r, "saveOrder",
          [req[r] EXCEPT !.orderId = FormatId("ORD", CountDocuments(orders))])
  /\ UNCHANGED << orders, customers, clock, stripeKey, origin, batch >>

\* new Order({...}) of the confirm route
NewOrderConfirmedFromBody(orderId, b) ==
  [ NewOrderDirect(orderId, b) EXCEPT
      !.status = WithDefault(b.status, "Processing"),
      !.paymentStatus = WithDefault(b.paymentStatus, "Complete") ]
NewOrderConfirmed(orderId, b) ==
  [ orderId |-> orderId,
    customer |-> [ name |-> b.name, email |-> b.email, phone |-> b.phone,
                   address |-> b.address, city |-> OrElse(b.city, ""),
                   country |-> OrElse(b.country, "") ],
    items |-> [ i \in 1..Len(b.items) |->
                  [ b.items[i] EXCEPT !.quantity = IF @ = 0 THEN 1 ELSE @ ] ],
    total |-> b.total,
    status |-> "Processing",
    paymentStatus |-> "Complete",
    notes |-> IF Falsy(b.shipping) THEN "" ELSE "Shipping: " \o b.shipping ]

NewOrder(q) ==
  IF q.kind = "direct" THEN NewOrderDirect(q.orderId, q.body)
                       ELSE NewOrderConfirmed(q.orderId, q.body)

\* await order.save(): validation, then the insert; a rejection is caught by
\* the handler's catch block, which answers 500
SaveOrderAndAnswer(r) ==
  /\ pc[r] = "saveOrder"
  /\ LET o == NewOrder(req[r]) IN
       IF ~OrderValid(o) \/ OrderIdTaken(orders, o)
       THEN /\ Finish(r, Caught(req[r].kind))
            /\ UNCHANGED << orders, origin, clock >>
       ELSE /\ clock' \in Now
            /\ orders' = Append(orders, o @@ [createdAt |-> clock'])
            /\ origin' = Append(origin, [ path |-> req[r].kind,
                                          minted |-> req[r].orderId,
                                          intent |-> req[r].body.paymentIntentId ])
            /\ Finish(r, Created(req[r].kind))
  /\ UNCHANGED << customers, stripeKey, batch >>
SaveOrder(r) ==
  /\ pc[r] = "saveOrder"
  /\ LET o == NewOrder(req[r]) IN
       IF ~OrderValid(o) \/ OrderIdTaken(orders, o)
       THEN /\ Finish(r, Caught(req[r].kind))
            /\ UNCHANGED << orders, origin, clock >>
       ELSE /\ clock' \in Now
            /\ orders' = Append(orders, o @@ [createdAt |-> clock'])
            /\ origin' = Append(origin, [ path |-> req[r].kind,
                                          minted |-> req[r].orderId,
                                          intent |-> req[r].body.paymentIntentId ])
            /\ Goto(r, "findCust", req[r])
  /\ UNCHANGED << customers, stripeKey, batch >>

\* -------------------------------------------------- the customer ledger
\* `trim: true` of customerSchema.customerName, on the names the model submits:
\* " " is the one that has whitespace to lose
Trim(s) == IF s = " " THEN "" ELSE s

\* the branch `if (customer) { ... }` of router.post('/'): the loaded document
\* after the handler's assignments
AssignedCustomerDirect(was, b, now) ==
  [ was EXCEPT !.totalOrders = @ + 1,
               !.totalSpent = @ + b.total,
               !.lastOrderDate = now,
               !.paymentStatus = OrElse(b.paymentStatus, "Pending"),
               !.customerName = Trim(b.name),
               !.phone = b.phone,
               !.location = OrElse(b.location, "") ]
UpdatedCustomerDirect(was, b, now) ==
  [ was EXCEPT !.totalOrders = @ + 1,
               !.totalSpent = @ + b.total,
               !.lastOrderDate = now,
               !.paymentStatus = OrElse(b.paymentStatus, "Pending"),
               !.customerName = IF Falsy(b.name) THEN @ ELSE Trim(b.name),
               !.phone = IF Falsy(b.phone) THEN @ ELSE b.phone,
               !.location = IF Falsy(b.location) THEN @ ELSE b.location ]

\* the same branch of router.post('/confirm')
UpdatedCustomerConfirmed(was, b, now) ==
  [ was EXCEPT !.totalOrders = @ + 1,
               !.totalSpent = @ + b.total,
               !.lastOrderDate = now,
               !.paymentStatus = "Complete",
               !.customerName = IF Falsy(b.name) THEN @ ELSE Trim(b.name),
               !.phone = IF Falsy(b.phone) THEN @ ELSE b.phone,
               !.location = IF Falsy(b.country) THEN @ ELSE b.country ]

UpdatedCustomer(q, was, now) ==
  IF q.kind = "direct" THEN UpdatedCustomerDirect(was, q.body, now)
                       ELSE UpdatedCustomerConfirmed(was, q.body, now)

\* new Customer({...}) of the two routes; count is Customer.countDocuments()
NewCustomer(q, count, now) ==
  [ customerId |-> FormatId("CUST", count),
    customerName |-> Trim(q.body.name),
    email |-> LowerCase(q.body.email),
    phone |-> OrElse(q.body.phone, ""),
    location |-> OrElse(q.body.country, ""),
    totalOrders |-> 1,
    totalSpent |-> q.body.total,
    status |-> "Active",
    lastOrderDate |-> now,
    paymentStatus |-> IF q.kind = "direct" THEN OrElse(q.body.paymentStatus, "Pending")
                                           ELSE "Complete" ]

\* mongoose validation of a customer document (customerSchema)
CustomerValid(c) ==
  /\ ~Missing(c.customerId) /\ ~Missing(c.customerName) /\ ~Missing(c.email)
  /\ c.status \in {"Active", "Inactive"}
  /\ c.paymentStatus \in CustomerPaymentStatuses

\* the unique indexes on customers.customerId and customers.email (E11000)
CustomerKeyTaken(coll, c) ==
  \E k \in 1..Len(coll) : coll[k].customerId = c.customerId \/ coll[k].email = c.email

\* save() of a loaded document: an update that $sets the paths the handler
\* changed, and only those
SetModified(row, was, now) ==
  [ f \in DOMAIN row |-> IF now[f] # was[f] THEN now[f] ELSE row[f] ]

\* let customer = await Customer.findOne({ email }); if (customer) {...}
FindCustomer(r) ==
  /\ pc[r] = "findCust"
  /\ LET k == RowOf(customers, req[r].body.email) IN
       IF k > 0
       THEN /\ clock' \in Now
            /\ Goto(r, "saveCust",
                    [req[r] EXCEPT !.doc = [ row |-> k, was |-> customers[k],
                                             now |-> UpdatedCustomer(req[r], customers[k], clock') ]])
       ELSE /\ Goto(r, "countCust", req[r])
            /\ UNCHANGED clock
  /\ UNCHANGED << orders, customers, stripeKey, origin, batch >>

\* else { customer = new Customer({ customerId: ...await Customer.countDocuments()... }) }
CountCustomersByOrders(r) ==
  /\ pc[r] = "countCust"
  /\ clock' \in Now
  /\ LET c == NewCustomer(req[r], CountDocuments(orders), clock') IN
       Goto(r, "saveCust", [req[r] EXCEPT !.doc = [ row |-> 0, was |-> c, now |-> c ]])
  /\ UNCHANGED << orders, customers, stripeKey, origin, batch >>
CountCustomers(r) ==
  /\ pc[r] = "countCust"
  /\ clock' \in Now
  /\ LET c == NewCustomer(req[r], CountDocuments(customers), clock') IN
       Goto(r, "saveCust", [req[r] EXCEPT !.doc = [ row |-> 0, was |-> c, now |-> c ]])
  /\ UNCHANGED << orders, customers, stripeKey, origin, batch >>

\* await customer.save(); res.status(201)...; a rejection answers 500
SaveCustomerOrRollBack(r) ==
  /\ pc[r] = "saveCust"
  /\ LET d == req[r].doc IN
       IF ~CustomerValid(d.now) \/ (d.row = 0 /\ CustomerKeyTaken(customers, d.now))
       THEN /\ Finish(r, Caught(req[r].kind))
            /\ orders' = SubSeq(orders, 1, Len(orders) - 1)
            /\ origin' = SubSeq(origin, 1, Len(origin) - 1)
            /\ UNCHANGED << customers, batch >>
       ELSE /\ customers' =
                 IF d.row = 0 THEN Append(customers, d.now)
                 ELSE [customers EXCEPT ![d.row] = SetModified(@, d.was, d.now)]
            /\ batch' = Answered201(batch, req[r].body)
            /\ Finish(r, Created(req[r].kind))
            /\ UNCHANGED << orders, origin >>
  /\ UNCHANGED << clock, stripeKey >>
SaveCustomer(r) ==
  /\ pc[r] = "saveCust"
  /\ LET d == req[r].doc IN
       IF ~CustomerValid(d.now) \/ (d.row = 0 /\ CustomerKeyTaken(customers, d.now))
       THEN /\ Finish(r, Caught(req[r].kind))
            /\ UNCHANGED << customers, batch >>
       ELSE /\ customers' =
                 IF d.row = 0 THEN Append(customers, d.now)
                 ELSE [customers EXCEPT ![d.row] = SetModified(@, d.was, d.now)]
            /\ batch' = Answered201(batch, req[r].body)
            /\ Finish(r, Created(req[r].kind))
  /\ UNCHANGED << orders, clock, stripeKey, origin >>

\* ------------------------------------------------ POST /api/payments/confirm
\* if (paymentIntent.status !== 'succeeded') return res.status(400)...
NotFailed(status) == status \notin {"failed", "canceled"}
PaymentCompleted(status) == status = "succeeded"

\* if (!process.env.STRIPE_SECRET_KEY) return res.status(500)...
KeyNeverMissing == FALSE
KeyMissing == ~stripeKey
NotConfigured(route) == Reply(route, 500, "Payment gateway not configured")

\* router.post('/confirm') up to its first await
StartConfirm(r, b) ==
  /\ Accept(r)
  /\ batch' = StartBatch
  /\ IF KeyMissing
     THEN Finish(r, NotConfigured("POST /payments/confirm"))
     ELSE IF Falsy(b.paymentIntentId) \/ OrderRuleErrors(b) # {}
     THEN Finish(r, Invalid("POST /payments/confirm"))
     ELSE Goto(r, "retrieve", [IdleReq EXCEPT !.kind = "confirm", !.body = b])
  /\ UNCHANGED << orders, customers, clock, stripeKey, origin >>

\* const paymentIntent = await stripe.paymentIntents.retrieve(paymentIntentId)
\* and the check of its status; out is what the gateway answers
RetrieveIntentThenOrder(r, out) ==
  /\ pc[r] = "retrieve"
  /\ IF out # "error" /\ ~PaymentCompleted(out)
     THEN /\ Finish(r, [Reply("POST /payments/confirm", 400, "Payment not completed")
                          EXCEPT !.status = out])
          /\ UNCHANGED batch
     ELSE /\ Goto(r, "count", [req[r] EXCEPT !.gw = out])
          /\ batch' = Enter(batch, req[r].body)
  /\ UNCHANGED << orders, customers, clock, stripeKey, origin >>
RetrieveIntent(r, out) ==
  /\ pc[r] = "retrieve"
  /\ IF out = "error" THEN Finish(r, Caught("confirm")) /\ UNCHANGED batch
     ELSE IF ~PaymentCompleted(out)
     THEN /\ Finish(r, [Reply("POST /payments/confirm", 400, "Payment not completed")
                          EXCEPT !.status = out])
          /\ UNCHANGED batch
     ELSE /\ Goto(r, "count", [req[r] EXCEPT !.gw = out])
          /\ batch' = Enter(batch, req[r].body)
  /\ UNCHANGED << orders, customers, clock, stripeKey, origin >>

\* ----------------------------------------- POST /api/payments/create-intent
\* the bodies of create-intent; amount is in hundredths of the currency unit
\* (50 is the 0.50 of the rule)
IntentBodies ==
  { [amount |-> 50, currency |-> "usd"], [amount |-> 49, currency |-> "usd"],
    [amount |-> 50, currency |-> "xyz"], [amount |-> 50, currency |-> ABSENT] }

\* body('amount').isFloat({ min: 0.5 }), body('currency').isIn([...])
IntentRuleErrors(b) ==
  { rule \in {"amount", "currency"} :
      CASE rule = "amount" -> b.amount < 50
        [] rule = "currency" -> b.currency \notin {"usd", "eur", "gbp", "inr"} }

\* router.post('/create-intent') up to its first await
StartIntent(r, b) ==
  /\ Accept(r)
  /\ batch' = StartBatch
  /\ IF KeyMissing
     THEN Finish(r, NotConfigured("POST /payments/create-intent"))
     ELSE IF IntentRuleErrors(b) # {}
     THEN Finish(r, Invalid("POST /payments/create-intent"))
     ELSE Goto(r, "create", [IdleReq EXCEPT !.kind = "intent", !.body = b])
  /\ UNCHANGED << orders, customers, clock, stripeKey, origin >>

\* const paymentIntent = await stripe.paymentIntents.create({...}); res.json(...)
CreateIntent(r, out) ==
  /\ pc[r] = "create"
  /\ IF out = "error" THEN Finish(r, Caught("intent"))
     ELSE Finish(r, Reply("POST /payments/create-intent", 200, ""))
  /\ UNCHANGED << orders, customers, clock, stripeKey, origin, batch >>

\* ------------------------------------------------ PUT /api/orders/:id/status
\* the protect and admin middlewares in front of the route
AuthGate(auth) ==
  CASE auth = "none" -> 401
    [] auth = "user" -> 403
    [] auth = "admin" -> 200

\* body('status').isIn([...])
AnyStatusOk(status) == TRUE
StatusRuleOk(status) == status \in OrderStatuses

\* :id is the position of the order in the collection; 0 is an id that is no
\* ObjectId; auth is what the bearer token stands for
StatusRequests ==
  { [auth |-> a, id |-> 1, status |-> "Shipped", paymentStatus |-> ABSENT] :
      a \in {"none", "user"} }
  \cup { [auth |-> "admin", id |-> i, status |-> "Shipped", paymentStatus |-> ABSENT] :
           i \in {0, 1, 2} }
  \cup { [auth |-> "admin", id |-> 1, status |-> "Delivered", paymentStatus |-> p] :
           p \in {"Refunded", "Bogus"} }
  \cup { [auth |-> "admin", id |-> 1, status |-> s, paymentStatus |-> p] :
           s \in {"Bogus", ABSENT}, p \in {ABSENT, "Refunded"} }
  \cup { [auth |-> "admin", id |-> 1, status |-> s, paymentStatus |-> ABSENT] :
           s \in OrderStatuses }
  \cup { [auth |-> "admin", id |-> 1, status |-> "Processing", paymentStatus |-> ""] }

\* router.put('/:id/status') up to its first await
StartStatus(r, q) ==
  /\ Accept(r)
  /\ batch' = StartBatch
  /\ IF AuthGate(q.auth) # 200
     THEN Finish(r, Reply("PUT /orders/:id/status", AuthGate(q.auth), "Not authorized"))
     ELSE IF ~StatusRuleOk(q.status) THEN Finish(r, Invalid("PUT /orders/:id/status"))
     ELSE Goto(r, "findOrder",
               [IdleReq EXCEPT !.kind = "status", !.id = q.id,
                               !.body = [status |-> q.status,
                                         paymentStatus |-> q.paymentStatus]])
  /\ UNCHANGED << orders, customers, clock, stripeKey, origin >>

\* order.status = req.body.status; if (req.body.paymentStatus) order.paymentStatus = ...
UpdatedOrderUnlessDelivered(was, b) ==
  IF was.status = "Delivered" THEN was
  ELSE [ was EXCEPT !.status = b.status,
                    !.paymentStatus = IF Falsy(b.paymentStatus) THEN @ ELSE b.paymentStatus ]
UpdatedOrderAndNotes(was, b) ==
  [ was EXCEPT !.status = b.status, !.notes = "status: " \o b.status ]
UpdatedOrder(was, b) ==
  [ was EXCEPT !.status = b.status,
               !.paymentStatus = IF Falsy(b.paymentStatus) THEN @ ELSE b.paymentStatus ]

\* const order = await Order.findById(req.params.id); if (!order) return 404
FindOrder(r) ==
  /\ pc[r] = "findOrder"
  /\ LET k == req[r].id IN
       IF k = 0 THEN Finish(r, Caught("status"))
       ELSE IF k > Len(orders)
       THEN Finish(r, Reply("PUT /orders/:id/status", 404, "Order not found"))
       ELSE Goto(r, "saveStatus",
                 [req[r] EXCEPT !.doc = [ row |-> k, was |-> orders[k],
                                          now |-> UpdatedOrder(orders[k], req[r].body) ]])
  /\ UNCHANGED << orders, customers, clock, stripeKey, origin, batch >>

\* await order.save(); res.json(order)
SaveStatus(r) ==
  /\ pc[r] = "saveStatus"
  /\ LET d == req[r].doc IN
       IF ~OrderValid(d.now)
       THEN Finish(r, Caught("status")) /\ UNCHANGED orders
       ELSE /\ orders' = [orders EXCEPT ![d.row] = SetModified(@, d.was, d.now)]
            /\ Finish(r, Reply("PUT /orders/:id/status", 200, ""))
  /\ UNCHANGED << customers, clock, stripeKey, origin, batch >>

\* -------------------------------------------------------------------- Init
\* The database is empty, or it holds what one plain order of Seed leaves in it
\* (the state the handlers below reach from the empty database by serving
\* POST /api/orders with the body Seed at time 0).
SeedRequest == [IdleReq EXCEPT !.kind = "direct", !.body = Seed,
                               !.orderId = FormatId("ORD", 0)]
SeedOrder == NewOrder(SeedRequest) @@ [createdAt |-> 0]
SeedCustomer == NewCustomer(SeedRequest, 0, 0)

Init ==
  /\ \/ /\ orders = << >>
        /\ customers = << >>
        /\ origin = << >>
        /\ batch = FreshBatch(<< >>)
     \/ /\ orders = << SeedOrder >>
        /\ customers = << SeedCustomer >>
        /\ origin = << [ path |-> "direct", minted |-> SeedRequest.orderId,
                         intent |-> ABSENT ] >>
        /\ batch = Answered201(Enter(FreshBatch(<< >>), Seed), Seed)
  /\ pc = [r \in Slots |-> "idle"]
  /\ req = [r \in Slots |-> IdleReq]
  /\ clock = 0
  /\ stripeKey \in BOOLEAN
  /\ nStarted = 0
  /\ resp = NoReply

\* ------------------------------------------------------------------- Next
Next ==
  \/ \E r \in Slots, b \in DirectBodies : StartDirect(r, b)
  \/ \E r \in Slots, b \in ConfirmBodies : StartConfirm(r, b)
  \/ \E r \in Slots, out \in GatewayOutcomes : RetrieveIntent(r, out)
  \/ \E r \in Slots, b \in IntentBodies : StartIntent(r, b)
  \/ \E r \in Slots, out \in {"created", "error"} : CreateIntent(r, out)
  \/ \E r \in Slots : CountOrders(r)
  \/ \E r \in Slots : SaveOrder(r)
  \/ \E r \in Slots : FindCustomer(r)
  \/ \E r \in Slots : CountCustomers(r)
  \/ \E r \in Slots : SaveCustomer(r)
  \/ \E r \in Slots, q \in StatusRequests : StartStatus(r, q)
  \/ \E r \in Slots : FindOrder(r)
  \/ \E r \in Slots : SaveStatus(r)

Spec == Init /\ [][Next]_vars

\* the runs in which requests do not overlap: a request comes in only when no
\* other is in flight
SequentialDirect(r, b) == Quiescent /\ StartDirect(r, b)
SequentialConfirm(r, b) == Quiescent /\ StartConfirm(r, b)
SequentialStatus(r, q) == Quiescent /\ StartStatus(r, q)
SequentialIntent(r, b) == Quiescent /\ StartIntent(r, b)

NextSequential ==
  \/ \E r \in Slots, b \in DirectBodies : SequentialDirect(r, b)
  \/ \E r \in Slots, b \in ConfirmBodies : SequentialConfirm(r, b)
  \/ \E r \in Slots, out \in GatewayOutcomes : RetrieveIntent(r, out)
  \/ \E r \in Slots, b \in IntentBodies : SequentialIntent(r, b)
  \/ \E r \in Slots, out \in {"created", "error"} : CreateIntent(r, out)
  \/ \E r \in Slots : CountOrders(r)
  \/ \E r \in Slots : SaveOrder(r)
  \/ \E r \in Slots : FindCustomer(r)
  \/ \E r \in Slots : CountCustomers(r)
  \/ \E r \in Slots : SaveCustomer(r)
  \/ \E r \in Slots, q \in StatusRequests : SequentialStatus(r, q)
  \/ \E r \in Slots : FindOrder(r)
  \/ \E r \in Slots : SaveStatus(r)

SpecSequential == Init /\ [][NextSequential]_vars

\* the same runs, with every step that waits on the database taken in the end:
\* MongoDB answers. The gateway's answer is not among them: the client of
\* paymentRoutes.js is built without a timeout, and the handler awaits it
\* without one.
DatabaseStep(r) ==
  \/ CountOrders(r) \/ SaveOrder(r) \/ FindCustomer(r) \/ CountCustomers(r)
  \/ SaveCustomer(r) \/ FindOrder(r) \/ SaveStatus(r)

SpecSequentialLive ==
  SpecSequential /\ \A r \in Slots : WF_vars(DatabaseStep(r))

\* =================================================================== claims
\* the rows of an email, the orders of an email, and the sum of their totals
RowsOf(e) == { k \in 1..Len(customers) : customers[k].email = e }
OrdersOf(e) == { k \in 1..Len(orders) : orders[k].customer.email = e }

RECURSIVE SumTotals(_)
SumTotals(S) ==
  IF S = {} THEN 0
  ELSE LET k == CHOOSE x \in S : TRUE IN orders[k].total + SumTotals(S \ {k})

\* C1: when N >= 2 plain order-creation requests for an email without a
\* customer row run in any interleaving and each of them has persisted its
\* order, then once all have finished there is exactly one customer row for the
\* email, with totalOrders = N and totalSpent = the sum of the N totals.
C1_ConcurrentFirstOrders ==
  Quiescent =>
    \A e \in Emails :
      ( /\ RowOf(batch.base, e) = 0 /\ batch.n[e] >= 2 /\ batch.plain
        /\ Cardinality(OrdersOf(e)) = batch.n[e] ) =>
        /\ Cardinality(RowsOf(e)) = 1
        /\ \A k \in RowsOf(e) : /\ customers[k].totalOrders = batch.n[e]
                                /\ customers[k].totalSpent = batch.sum[e]

\* C2: when two order-creation requests for an email that has a customer row
\* run in any interleaving and both are answered 201, totalOrders has grown by
\* exactly 2 and totalSpent by the sum of the two totals.
C2_BothIncrementsLand ==
  Quiescent =>
    \A e \in Emails :
      (RowOf(batch.base, e) > 0 /\ batch.n[e] = 2 /\ batch.ok[e] = 2) =>
        LET was == batch.base[RowOf(batch.base, e)]
            row == customers[RowOf(customers, e)]
        IN /\ row.totalOrders = was.totalOrders + 2
           /\ row.totalSpent = was.totalSpent + batch.sum[e]

\* C3: confirming payment with the same paymentIntentId more than once leaves
\* at most one order record for that intent.
C3_OneOrderPerIntent ==
  \A i \in Intents :
    Cardinality({ k \in 1..Len(origin) : origin[k].intent = i }) <= 1

\* C4: two order-creation requests that both hold an identifier they have not
\* saved yet (both read the order count before either saved) hold distinct
\* identifiers.
C4_OverlappingIdsDistinct ==
  \A r1, r2 \in Slots :
    (r1 # r2 /\ pc[r1] = "saveOrder" /\ pc[r2] = "saveOrder") =>
      req[r1].orderId # req[r2].orderId

\* C5: when requests do not overlap, the k-th persisted order carries the
\* identifier ORD-<k>, zero-padded to width 3.
C5_SequentialIdentifiers ==
  \A k \in 1..Len(orders) : orders[k].orderId = FormatId("ORD", k - 1)

\* C6: when requests do not overlap and none is in flight, for every email that
\* has a persisted order the customer row's totalOrders is the number of
\* persisted orders of that email and its totalSpent the sum of their totals.
C6_LedgerMatchesOrders ==
  Quiescent =>
    \A e \in Emails :
      OrdersOf(e) # {} =>
        /\ RowsOf(e) # {}
        /\ \A k \in RowsOf(e) : /\ customers[k].totalOrders = Cardinality(OrdersOf(e))
                                /\ customers[k].totalSpent = SumTotals(OrdersOf(e))

\* C7: a confirm request whose intent the gateway reports with a status other
\* than succeeded is answered 400 'Payment not completed' (carrying that
\* status) at the retrieve step, its handler is over, and neither step of the
\* handler (entry, retrieve) has changed the orders or the customers.
C7_UnpaidConfirmChangesNothing ==
  [][ /\ \A r \in Slots, b \in ConfirmBodies :
           StartConfirm(r, b) => (orders' = orders /\ customers' = customers)
      /\ \A r \in Slots, out \in GatewayStatuses \ {"succeeded"} :
           RetrieveIntent(r, out) =>
             /\ resp' = [ route |-> "POST /payments/confirm", code |-> 400,
                          message |-> "Payment not completed", status |-> out ]
             /\ pc'[r] = "idle"
             /\ orders' = orders /\ customers' = customers ]_vars

\* a 'Payment not completed' answer for requires_action has just been sent
\* while every email a confirm request can name has its customer row and orders
C7_Witness ==
  /\ resp.message = "Payment not completed" /\ resp.status = "requires_action"
  /\ \A e \in Emails : RowsOf(e) # {} /\ OrdersOf(e) # {}

\* C8: PUT /orders/:id/status with a status outside the enum ends at its first
\* step and leaves every stored order (and customer) unchanged, also when the
\* request carries a paymentStatus; an administrator's request is answered 400
\* with the validation errors.
C8_InvalidStatusRejected ==
  [][ \A r \in Slots, q \in StatusRequests :
        (StartStatus(r, q) /\ q.status \notin OrderStatuses) =>
          /\ q.auth = "admin" => resp' = Invalid("PUT /orders/:id/status")
          /\ pc'[r] = "idle"
          /\ orders' = orders /\ customers' = customers ]_vars

\* the validation failure of the status route has just been answered while the
\* order the rejected requests name is stored
C8_Witness ==
  /\ resp = Invalid("PUT /orders/:id/status")
  /\ Len(orders) >= 1

\* C9: every order the direct route persists has status Pending, and its
\* paymentStatus is the request's when one is supplied and Pending otherwise.
C9_DirectOrdersStartPending ==
  [][ \A r \in Slots :
        (pc[r] = "saveOrder" /\ pc'[r] = "findCust" /\ req[r].kind = "direct") =>
          LET o == orders'[Len(orders')] IN
            /\ o.status = "Pending"
            /\ o.paymentStatus = OrElse(req[r].body.paymentStatus, "Pending") ]_vars

\* C10: the orderId of every persisted order is the identifier minted for its
\* request.
C10_OrderIdIsMinted ==
  \A k \in 1..Len(orders) : orders[k].orderId = origin[k].minted

\* C11: no two persisted orders share an orderId, and no two customer rows
\* share a customerId or an email, in every reachable state.
C11_KeysUnique ==
  /\ \A j, k \in 1..Len(orders) : orders[j].orderId = orders[k].orderId => j = k
  /\ \A j, k \in 1..Len(customers) :
       (customers[j].customerId = customers[k].customerId
          \/ customers[j].email = customers[k].email) => j = k

\* two plain requests for one email ran together and one of them was answered
\* 500: a unique index rejected its insert
C11_Witness ==
  /\ Quiescent /\ resp = Caught("direct")
  /\ batch.plain /\ \E e \in Emails : batch.n[e] = 2

\* C12: every persisted order has total >= 0, at least one item, a status of
\* the status enum and a paymentStatus of the paymentStatus enum.
C12_OrdersWellFormed ==
  \A k \in 1..Len(orders) :
    /\ orders[k].total >= 0
    /\ Len(orders[k].items) >= 1
    /\ orders[k].status \in OrderStatuses
    /\ orders[k].paymentStatus \in OrderPaymentStatuses

\* a status update that supplied a paymentStatus has been saved
C12_Witness ==
  \E k \in 1..Len(orders) :
    orders[k].status = "Delivered" /\ orders[k].paymentStatus = "Refunded"

\* C13: within one order-creation request the identifier is allocated before
\* the order is persisted and the order is persisted before the ledger upsert;
\* the ledger changes only in the step that ends a request with 201, and a
\* ledger upsert that fails leaves the request's order persisted and the
\* customers as they were.
OrderPersisted(r) ==
  \E k \in 1..Len(orders) :
    /\ origin[k].minted = req[r].orderId
    /\ orders[k].customer.email = req[r].body.email
C13_StepsInOrder ==
  /\ [](\A r \in Slots :
          /\ pc[r] \in {"retrieve", "count"} => req[r].orderId = NULL
          /\ pc[r] = "saveOrder" => req[r].orderId # NULL
          /\ pc[r] \in {"findCust", "countCust", "saveCust"} => OrderPersisted(r))
  /\ [][ /\ customers' # customers =>
              \E r \in Slots : pc[r] = "saveCust" /\ pc'[r] = "idle" /\ resp'.code = 201
         /\ \A r \in Slots :
              (pc[r] = "saveCust" /\ pc'[r] = "idle" /\ resp'.code = 500) =>
                 /\ orders' = orders /\ customers' = customers
                 /\ OrderPersisted(r) ]_vars

\* a ledger upsert has just failed: the request is answered 500 and the orders
\* of its email outnumber what the customer row counts
C13_Witness ==
  /\ Quiescent /\ resp = Caught("direct")
  /\ \E e \in Emails :
       /\ RowsOf(e) # {}
       /\ \A k \in RowsOf(e) : customers[k].totalOrders < Cardinality(OrdersOf(e))

\* C14: a creation request whose body fails a validation rule is answered at
\* once (400; 500 on the confirm route when the gateway key is not set), its
\* handler is over before the order count is read or the gateway is called, and
\* the orders and the customers are unchanged.
C14_InvalidBodyRejected ==
  [][ /\ \A r \in Slots, b \in InvalidBodies :
           StartDirect(r, b) =>
             /\ resp' = Invalid("POST /orders")
             /\ pc'[r] = "idle"
             /\ orders' = orders /\ customers' = customers
      /\ \A r \in Slots, b \in ConfirmBodies :
           ( /\ StartConfirm(r, b)
             /\ \/ b.paymentIntentId = ""
                \/ [b EXCEPT !.paymentIntentId = ABSENT] \in InvalidBodies ) =>
             /\ resp'.code = IF stripeKey THEN 400 ELSE 500
             /\ stripeKey => resp' = Invalid("POST /payments/confirm")
             /\ pc'[r] = "idle"
             /\ orders' = orders /\ customers' = customers ]_vars

\* the validation failure of the confirm route has just been answered while
\* orders and customers are stored
C14_Witness ==
  /\ resp = Invalid("POST /payments/confirm")
  /\ Len(orders) >= 1 /\ Len(customers) >= 1

\* C15: an order save that is rejected only because its orderId is taken is
\* retried: the request goes back to mint a new identifier instead of ending.
C15_CollisionRetried ==
  [][ \A r \in Slots :
        ( /\ pc[r] = "saveOrder" /\ pc'[r] # "saveOrder"
          /\ OrderValid(NewOrder(req[r]))
          /\ req[r].body.orderId = ABSENT
          /\ OrderIdTaken(orders, NewOrder(req[r])) ) =>
          pc'[r] = "count" ]_vars

\* the value a creation request supplies for a contact field of the customer
\* row it updates
Supplied(q, f) ==
  CASE f = "customerName" -> Trim(q.body.name)
    [] f = "phone" -> q.body.phone
    [] f = "location" -> IF q.kind = "direct" THEN q.body.location ELSE q.body.country

ContactFields == {"customerName", "phone", "location"}

\* C16: in every step, a customerName, phone or location of a customer row that
\* is not empty stays not empty, and one that changes becomes the non-empty
\* value supplied by the creation request whose customer save the step is.
C16_ContactNeverBlanked ==
  [][ \A k \in 1..Len(customers), f \in ContactFields :
        /\ k <= Len(customers')
        /\ customers[k][f] # "" => customers'[k][f] # ""
        /\ customers'[k][f] # customers[k][f] =>
             \E r \in Slots :
               /\ pc[r] = "saveCust" /\ pc'[r] = "idle"
               /\ LowerCase(req[r].body.email) = customers[k].email
               /\ ~Falsy(Supplied(req[r], f))
               /\ customers'[k][f] = Supplied(req[r], f) ]_vars

\* a confirm request that supplied no country has just updated a customer row
\* whose location an earlier request had set: the location is still there
C16_Witness ==
  /\ resp = Created("confirm")
  /\ \E k \in 1..Len(customers) :
       customers[k].location = "Goa" /\ customers[k].totalOrders = 3

\* C17: in every step no order and no customer row is removed, every order
\* keeps all its fields but status and paymentStatus, those two change only in
\* the save of a status update, and a step that changes the customers changes
\* no order.
C17_OrdersOnlyChangeStatus ==
  [][ /\ Len(orders') >= Len(orders) /\ Len(customers') >= Len(customers)
      /\ \A k \in 1..Len(orders) :
           /\ [ orders'[k] EXCEPT !.status = orders[k].status,
                                  !.paymentStatus = orders[k].paymentStatus ] = orders[k]
           /\ orders'[k] # orders[k] =>
                \E r \in Slots : pc[r] = "saveStatus" /\ pc'[r] = "idle" /\ req[r].id = k
      /\ customers' # customers => orders' = orders ]_vars

\* a status update has just been saved while another order is stored as well
C17_Witness ==
  /\ resp = Reply("PUT /orders/:id/status", 200, "")
  /\ Len(orders) >= 2
  /\ \E k \in 1..Len(orders) : orders[k].status \in {"Shipped", "Delivered"}

\* C18: without the gateway key, create-intent and confirm are answered 500
\* 'not configured' at once, whatever the body: the handler is over before any
\* gateway call, and the orders and the customers are unchanged.
C18_NoKeyNoGateway ==
  [][ ~stripeKey =>
        /\ \A r \in Slots, b \in ConfirmBodies :
             StartConfirm(r, b) =>
               /\ resp' = NotConfigured("POST /payments/confirm")
               /\ pc'[r] = "idle"
               /\ orders' = orders /\ customers' = customers
        /\ \A r \in Slots, b \in IntentBodies :
             StartIntent(r, b) =>
               /\ resp' = NotConfigured("POST /payments/create-intent")
               /\ pc'[r] = "idle"
               /\ orders' = orders /\ customers' = customers
        /\ \A r \in Slots : pc'[r] \notin {"retrieve", "create"} ]_vars

\* create-intent has just been answered 'not configured' while an order is
\* stored
C18_Witness ==
  /\ ~stripeKey
  /\ resp = NotConfigured("POST /payments/create-intent")
  /\ Len(orders) >= 1

\* C19: a confirm request calls the gateway once: it waits on the gateway only
\* from its first step, every answer of the gateway takes it off that wait, and
\* when the call errors the request is answered 500 at once with the orders
\* and the customers unchanged.
C19_GatewayErrorEndsRequest ==
  [][ \A r \in Slots :
        /\ (pc'[r] = "retrieve" /\ pc[r] # "retrieve") => pc[r] = "idle"
        /\ \A out \in GatewayOutcomes : RetrieveIntent(r, out) => pc'[r] # "retrieve"
        /\ RetrieveIntent(r, "error") =>
             /\ resp' = Caught("confirm")
             /\ pc'[r] = "idle"
             /\ orders' = orders /\ customers' = customers ]_vars

\* a confirm request has just been answered 500 without having gone past the
\* gateway, while an order is stored
C19_Witness ==
  /\ Quiescent /\ resp = Caught("confirm")
  /\ \A e \in Emails : batch.n[e] = 0
  /\ Len(orders) >= 1

\* C20: every request that is in flight is answered in the end, a confirm
\* request that waits on the gateway included, and a confirm request whose
\* gateway call fails (an error or a timeout of the call) is answered with an
\* upstream-service failure (502, 503 or 504).
C20_EveryRequestAnswered ==
  /\ \A r \in Slots : (pc[r] # "idle") ~> (pc[r] = "idle")
  /\ [][ \A r \in Slots :
           RetrieveIntent(r, "error") => resp'.code \in {502, 503, 504} ]_vars

\* C21: a status update whose id matches no persisted order (an id that is no
\* ObjectId included) is answered 404 'Order not found' and changes no order and
\* no customer.
C21_UnknownIdNotFound ==
  [][ \A r \in Slots :
        (FindOrder(r) /\ (req[r].id = 0 \/ req[r].id > Len(orders))) =>
          /\ resp' = Reply("PUT /orders/:id/status", 404, "Order not found")
          /\ orders' = orders /\ customers' = customers ]_vars

\* C22: the order a direct creation persists has the total the request
\* submitted.
C22_TotalAsSubmitted ==
  [][ \A r \in Slots :
        (pc[r] = "saveOrder" /\ pc'[r] = "findCust" /\ req[r].kind = "direct") =>
          /\ Len(orders') = Len(orders) + 1
          /\ orders'[Len(orders')].total = req[r].body.total ]_vars

\* a direct order is stored whose total (15) is not the sum of its items (10)
C22_Witness ==
  \E k \in 1..Len(orders) :
    /\ origin[k].path = "direct"
    /\ orders[k].total = 15
    /\ orders[k].items = << Item >>

\* C23: the order the confirm route persists has status Processing and
\* paymentStatus Complete whatever the body carries, its notes are 'Shipping: '
\* and the method when shipping is supplied and empty otherwise, and the
\* customer save that ends the request with 201 leaves the row of the request's
\* email with paymentStatus Complete.
C23_ConfirmedOrderShape ==
  [][ \A r \in Slots :
        /\ (pc[r] = "saveOrder" /\ pc'[r] = "findCust" /\ req[r].kind = "confirm") =>
             LET o == orders'[Len(orders')] IN
               /\ o.status = "Processing"
               /\ o.paymentStatus = "Complete"
               /\ o.notes = IF req[r].body.shipping \in {ABSENT, NULL, ""} THEN ""
                            ELSE "Shipping: " \o req[r].body.shipping
        /\ ( /\ pc[r] = "saveCust" /\ pc'[r] = "idle" /\ req[r].kind = "confirm"
             /\ resp'.code = 201 ) =>
             /\ RowOf(customers', req[r].body.email) > 0
             /\ customers'[RowOf(customers', req[r].body.email)].paymentStatus = "Complete" ]_vars

\* a confirm request with a shipping method has just been answered 201 and its
\* order is stored
C23_Witness ==
  /\ resp = Created("confirm")
  /\ \E k \in 1..Len(orders) :
       /\ origin[k].path = "confirm"
       /\ orders[k].notes = "Shipping: express"
       /\ orders[k].status = "Processing" /\ orders[k].paymentStatus = "Complete"

\* C24: when no request overlaps another and a creation has just been answered
\* 201, the customer row of the latest order's email has that order's
\* paymentStatus and a lastOrderDate equal to that order's timestamp.
C24_RowMirrorsLatestOrder ==
  (Quiescent /\ resp.code = 201) =>
    LET o == orders[Len(orders)]
        k == RowOf(customers, o.customer.email)
    IN /\ k > 0
       /\ customers[k].paymentStatus = o.paymentStatus
       /\ customers[k].lastOrderDate = o.createdAt

Rank(status) ==
  CASE status = "Pending" -> 1
    [] status = "Processing" -> 2
    [] status = "Shipped" -> 3
    [] status = "Delivered" -> 4
    [] status = "Cancelled" -> 5

\* C26: in every step, an order that is Delivered or Cancelled keeps its status,
\* and an order whose status changes moves forward along Pending, Processing,
\* Shipped, Delivered, or to Cancelled.
C26_StatusOnlyForward ==
  [][ \A k \in 1..Len(orders) :
        /\ orders[k].status \in {"Delivered", "Cancelled"} =>
             orders'[k].status = orders[k].status
        /\ Rank(orders'[k].status) >= Rank(orders[k].status) ]_vars

\* C27: the k-th customer row carries the identifier CUST-<k>, zero-padded to
\* width 3, no two rows are for one email, and every row that was there when
\* the requests in flight began still is, with its customerId and its email.
C27_CustomerIdsSequential ==
  /\ \A k \in 1..Len(customers) : customers[k].customerId = FormatId("CUST", k - 1)
  /\ \A e \in Emails : Cardinality(RowsOf(e)) <= 1
  /\ Len(batch.base) <= Len(customers)
  /\ \A k \in 1..Len(batch.base) :
       /\ customers[k].customerId = batch.base[k].customerId
       /\ customers[k].email = batch.base[k].email

\* first orders of two emails have given the rows CUST-001 and CUST-002
C27_Witness ==
  /\ Len(customers) = 2
  /\ customers[1].customerId = "CUST-001" /\ customers[2].customerId = "CUST-002"
  /\ customers[1].email # customers[2].email

\* the step ends the creation request of slot r
CreationEnds(r) ==
  /\ pc[r] # "idle" /\ pc'[r] = "idle"
  /\ req[r].kind \in {"direct", "confirm"}

\* the step is the customer save that answers 201 to the request of slot r:
\* its order is stored and the step changes the customers
AnsweredAfterBoth(r) ==
  /\ pc[r] = "saveCust"
  /\ OrderPersisted(r)
  /\ customers' # customers
  /\ RowOf(customers', req[r].body.email) > 0

\* C28 as stated: a creation request is answered 201 only in the step that
\* persists its customer change, its order being stored, and a creation request
\* that is answered with a failure has no order of its own in the store.
C28_FailureLeavesNoOrder ==
  [][ \A r \in Slots :
        CreationEnds(r) =>
          IF resp'.code = 201 THEN AnsweredAfterBoth(r)
          ELSE orders' = orders /\ ~OrderPersisted(r) ]_vars

\* C28 amended: a creation request is answered 201 only in the step that
\* persists its customer change, its order being stored; a creation request
\* that is answered with a failure has changed no customer, and has no order of
\* its own in the store unless the failure is that of the customer save, in
\* which case its order stays stored.
C28_FailureLeavesLedger ==
  [][ \A r \in Slots :
        CreationEnds(r) =>
          IF resp'.code = 201 THEN AnsweredAfterBoth(r)
          ELSE /\ orders' = orders /\ customers' = customers
               /\ OrderPersisted(r) <=> pc[r] = "saveCust" ]_vars

\* a direct request carrying paymentStatus Refunded has just been answered 500
\* and its order is stored
C28_Witness ==
  /\ Quiescent /\ resp = Caught("direct")
  /\ \E k \in 1..Len(orders) :
       origin[k].path = "direct" /\ orders[k].paymentStatus = "Refunded"

\* C29 as stated: every customer row has totalOrders >= 1 and totalSpent >= 0,
\* at least one persisted order carries the row's email, and totalOrders is at
\* most the number of persisted orders that carry it.  (The row holds the
\* address in lower case, the order holds it as submitted.)
C29_LedgerCountsStoredOrders ==
  \A k \in 1..Len(customers) :
    /\ customers[k].totalOrders >= 1
    /\ customers[k].totalSpent >= 0
    /\ OrdersOf(customers[k].email) # {}
    /\ customers[k].totalOrders <= Cardinality(OrdersOf(customers[k].email))

\* C30 as stated: under any interleaving of creation requests, no step makes
\* a customer row's totalOrders, totalSpent or lastOrderDate smaller.
C30_LedgerNeverDecreases ==
  [][ \A k \in 1..Len(customers) :
        /\ k <= Len(customers')
        /\ customers'[k].totalOrders >= customers[k].totalOrders
        /\ customers'[k].totalSpent >= customers[k].totalSpent
        /\ customers'[k].lastOrderDate >= customers[k].lastOrderDate ]_vars

====
